---- MODULE Spec2Model ----
(***************************************************************************)
(* Model of the data-acquisition core of src/app.py: extract_repo_info,    *)
(* handle_github_error and the three fetchers fetch_repo_data,             *)
(* fetch_language_stats and fetch_commit_activity.                         *)
(*                                                                         *)
(* Python values are represented as follows.                               *)
(*   str        a sequence of one-character strings                        *)
(*   None / x   None is <<>>, a present value x is <<x>> (Some(x))         *)
(*   exception  a record with a field type                                 *)
(* One call of a function is one action: Init draws the function and its   *)
(* input (for a fetcher: what the transport does), the action computes the *)
(* outcome of the whole call.                                              *)
(***************************************************************************)
EXTENDS Integers, Sequences, FiniteSets, TLC

VARIABLES pc, fn, url, transport, result, repo_urls, idx, requests, reports

vars == <<pc, fn, url, transport, result, repo_urls, idx, requests, reports>>

\* the variables of main's batch loop
mainVars == <<repo_urls, idx, requests, reports>>

(***************************************************************************)
(* Bounds of the model.                                                    *)
(***************************************************************************)
\* longest URL, counted in the tokens of UrlTokens
MaxUrlTokens == 6

None == <<>>
Some(x) == <<x>>

(***************************************************************************)
(* Strings.                                                                *)
(***************************************************************************)
RECURSIVE Flatten(_)
Flatten(ss) == IF ss = <<>> THEN <<>> ELSE Head(ss) \o Flatten(Tail(ss))

\* s[i..] starts with lit
IsLiteralAt(s, i, lit) ==
    /\ i >= 1
    /\ i + Len(lit) - 1 <= Len(s)
    /\ SubSeq(s, i, i + Len(lit) - 1) = lit

\* str.replace(old, new): every occurrence, left to right, not overlapping
RECURSIVE StrReplace(_, _, _)
StrReplace(s, old, new) ==
    IF s = <<>> THEN <<>>
    ELSE IF IsLiteralAt(s, 1, old)
         THEN new \o StrReplace(SubSeq(s, Len(old) + 1, Len(s)), old, new)
         ELSE <<Head(s)>> \o StrReplace(Tail(s), old, new)

DotGit == <<".", "g", "i", "t">>
Scheme == <<"h", "t", "t", "p", "s", ":", "/", "/">>
Host == <<"g", "i", "t", "h", "u", "b", ".", "c", "o", "m">>

(***************************************************************************)
(* extract_repo_info: re.search(r"github\.com/([^/]+)/([^/]+)", url).      *)
(***************************************************************************)
\* the literal the pattern starts with
PatternLiteral == Host \o <<"/">>

\* [^/]+ is greedy: the index of the last character of the longest run of
\* characters other than "/" that starts at p (p - 1 when the run is empty)
RECURSIVE RunEnd(_, _)
RunEnd(s, p) ==
    IF p > Len(s) \/ s[p] = "/" THEN p - 1 ELSE RunEnd(s, p + 1)

\* the match of the pattern that starts at index i, or None. Group 1 cannot
\* give characters back (the next pattern character is "/", which the group
\* excludes), so the greedy runs decide the match.
MatchAt(s, i) ==
    LET o1 == i + Len(PatternLiteral)
        o2 == RunEnd(s, o1)
        r1 == o2 + 2
        r2 == RunEnd(s, r1)
    IN  IF /\ IsLiteralAt(s, i, PatternLiteral)
           /\ o2 >= o1
           /\ o2 + 1 <= Len(s)
           /\ r2 >= r1
        THEN Some([group1 |-> SubSeq(s, o1, o2), group2 |-> SubSeq(s, r1, r2)])
        ELSE None

\* re.search: the leftmost match
ReSearch(s) ==
    LET starts == {i \in 1..Len(s) : MatchAt(s, i) # None}
    IN  IF starts = {} THEN None
        ELSE MatchAt(s, CHOOSE i \in starts : \A j \in starts : i <= j)

\* repo.replace(".git", "")
RepoName(repo) == StrReplace(repo, DotGit, <<>>)

\* the pattern with its second group optional
extract_repo_info_OwnerOnly(u) ==
    LET starts == {i \in 1..Len(u) : IsLiteralAt(u, i, PatternLiteral)
                                      /\ RunEnd(u, i + Len(PatternLiteral))
                                           >= i + Len(PatternLiteral)}
    IN  IF starts = {} THEN <<None, None>>
        ELSE LET i == CHOOSE k \in starts : \A j \in starts : k <= j
                 o1 == i + Len(PatternLiteral)
                 o2 == RunEnd(u, o1)
             IN  <<Some(SubSeq(u, o1, o2)),
                   Some(RepoName(SubSeq(u, o2 + 2, RunEnd(u, o2 + 2))))>>

\* the pair (owner, repo) the function returns
extract_repo_info(u) ==
    LET match == ReSearch(u)
    IN  IF match # None
        THEN <<Some(match[1].group1), Some(RepoName(match[1].group2))>>
        ELSE <<None, None>>

(***************************************************************************)
(* Inputs.                                                                 *)
(***************************************************************************)
UrlTokens == {PatternLiteral, <<"/">>, <<"a">>, DotGit}

RECURSIVE TokenSeqs(_)
TokenSeqs(n) ==
    IF n = 0 THEN {<<>>}
    ELSE LET shorter == TokenSeqs(n - 1)
         IN  shorter \cup {Append(ts, t) : ts \in {x \in shorter : Len(x) = n - 1},
                                           t \in UrlTokens}

ExampleUrls ==
    { Flatten(<<Scheme, Host, <<"/">>, <<"o", "c", "t", "o">>, <<"/">>,
                <<"o", "c", "t", "o">>, DotGit, <<"h", "u", "b", ".", "i", "o">>>>),
      Flatten(<<Scheme, Host, <<"/">>, <<"o", "c", "t", "o">>, <<"/">>,
                <<"H", "e", "l", "l", "o">>, DotGit>>) }

Urls == {Flatten(ts) : ts \in TokenSeqs(MaxUrlTokens)} \cup ExampleUrls

(***************************************************************************)
(* Outcomes of a call, exceptions, messages.                               *)
(*                                                                         *)
(* A message is a sequence of parts: Lit(s) is literal text of the source, *)
(* Chars(cs) an interpolated string, Num(n) an interpolated integer and    *)
(* Raw(b) the interpolated text of a response body.                        *)
(***************************************************************************)
NoTransport == [kind |-> "none"]
Pending == [kind |-> "pending"]
Return(v) == [kind |-> "return", value |-> v]
Raise(e) == [kind |-> "raise", exc |-> e]

Lit(s) == [lit |-> s]
Chars(cs) == [chars |-> cs]
Num(n) == [num |-> n]
Raw(b) == [body |-> b]

\* class GitHubAPIError(Exception): message, status_code=None, remaining_calls=None
GitHubAPIError(message, status_code, remaining_calls) ==
    [type |-> "GitHubAPIError", message |-> message,
     status_code |-> status_code, remaining_calls |-> remaining_calls]

\* any other exception; str(e) is its message
PyError(type, message) == [type |-> type, message |-> message]

PyNone == [type |-> "None"]

(***************************************************************************)
(* JSON values as response.json() returns them.                            *)
(***************************************************************************)
JNull == [json |-> "null"]
JInt(n) == [json |-> "int", v |-> n]
JStr(x) == [json |-> "str", s |-> x]
JList(items) == [json |-> "list", items |-> items]
JDict(items) == [json |-> "dict", items |-> items]
\* a body that is no JSON document: response.json() raises
NotJson == [json |-> "invalid"]

\* Python truth value of a parsed document (the "if not x" tests)
Truthy(j) ==
    CASE j.json = "null" -> FALSE
      [] j.json = "int" -> j.v # 0
      [] j.json = "str" -> j # JStr("")
      [] j.json = "list" -> j.items # <<>>
      [] j.json = "dict" -> DOMAIN j.items # {}

\* the exception j[k] raises for a string key k, or None
SubscriptError(j, k) ==
    CASE j.json = "dict" ->
            IF k \in DOMAIN j.items THEN None
            ELSE Some(PyError("KeyError", <<Lit("'"), Lit(k), Lit("'")>>))
      [] j.json = "list" ->
            Some(PyError("TypeError", <<Lit("list indices must be integers or slices, not str")>>))
      [] j.json = "str" ->
            Some(PyError("TypeError", <<Lit("string indices must be integers")>>))
      [] j.json = "int" ->
            Some(PyError("TypeError", <<Lit("'int' object is not subscriptable")>>))
      [] j.json = "null" ->
            Some(PyError("TypeError", <<Lit("'NoneType' object is not subscriptable")>>))

\* the first exception of a sequence of optional exceptions, or None
RECURSIVE FirstError(_)
FirstError(errs) ==
    IF errs = <<>> THEN None
    ELSE IF Head(errs) # None THEN Head(errs) ELSE FirstError(Tail(errs))

(***************************************************************************)
(* Numbers in text.                                                        *)
(***************************************************************************)
Digits == <<"0", "1", "2", "3", "4", "5", "6", "7", "8", "9">>

IsDigit(c) == \E i \in 1..Len(Digits) : Digits[i] = c
DigitValue(c) == (CHOOSE i \in 1..Len(Digits) : Digits[i] = c) - 1

\* int(s) for a string of the inputs (digits or letters, no sign, no blanks):
\* Some(n), or None where int() raises ValueError
RECURSIVE DigitsValue(_, _)
DigitsValue(s, acc) ==
    IF s = <<>> THEN acc ELSE DigitsValue(Tail(s), acc * 10 + DigitValue(Head(s)))

ParseInt(s) ==
    IF s # <<>> /\ \A i \in 1..Len(s) : IsDigit(s[i])
    THEN Some(DigitsValue(s, 0))
    ELSE None

TwoDigits(n) == <<Digits[(n \div 10) + 1], Digits[(n % 10) + 1]>>
FourDigits(n) == TwoDigits(n \div 100) \o TwoDigits(n % 100)

\* a clock that drops the seconds
ClockText_HoursMinutes(ts) ==
    LET secs == ts % 86400
    IN  TwoDigits(secs \div 3600) \o <<":">> \o TwoDigits((secs % 3600) \div 60)

\* datetime.fromtimestamp(ts).strftime('%H:%M:%S'), the process running in UTC
ClockText(ts) ==
    LET secs == ts % 86400
    IN  TwoDigits(secs \div 3600) \o <<":">> \o TwoDigits((secs % 3600) \div 60)
          \o <<":">> \o TwoDigits(secs % 60)

(***************************************************************************)
(* handle_github_error(response): never returns, the value is the          *)
(* exception it raises.                                                    *)
(***************************************************************************)
handle_github_error(response) ==
    LET remaining_calls ==
            IF response.headers.remaining # None
            THEN Chars(response.headers.remaining[1])
            ELSE Lit("Unknown")
        header == response.headers.reset
        \* "if reset_time:" is false for a missing and for an empty header
        converts == header # None /\ header[1] # <<>>
        reset_time ==
            IF converts THEN Chars(ClockText(ParseInt(header[1])[1]))
            ELSE Lit("Unknown")
    IN  IF converts /\ ParseInt(header[1]) = None
        THEN PyError("ValueError",
                     <<Lit("invalid literal for int() with base 10: "),
                       Chars(header[1])>>)
        ELSE CASE response.status_code = 404 ->
                    GitHubAPIError(<<Lit("Repository not found. Please check the URL.")>>,
                                   Some(404), Some(remaining_calls))
               [] response.status_code = 403 ->
                    GitHubAPIError(<<Lit("Rate limit exceeded. Resets at "), reset_time,
                                     Lit(". Remaining calls: "), remaining_calls>>,
                                   Some(403), Some(remaining_calls))
               [] response.status_code = 401 ->
                    GitHubAPIError(<<Lit("Unauthorized access. Please check your credentials.")>>,
                                   Some(401), Some(remaining_calls))
               [] response.status_code = 429 ->
                    GitHubAPIError(<<Lit("Too many requests. Please wait until "),
                                     reset_time, Lit(".")>>,
                                   Some(429), Some(remaining_calls))
               [] OTHER ->
                    GitHubAPIError(<<Lit("GitHub API error: "), Num(response.status_code),
                                     Lit(" - "), Raw(response.body)>>,
                                   Some(response.status_code), Some(remaining_calls))

\* response.json()
JsonError(response) ==
    IF response.body = NotJson
    THEN Some(PyError("JSONDecodeError", <<Lit("Expecting value: line 1 column 1 (char 0)")>>))
    ELSE None

(***************************************************************************)
(* fetch_repo_data and format_date                                         *)
(*                                                                         *)
(* The text of a date field is JDate(d), d a record of its shape and its   *)
(* numbers. Shapes: "padded" is YYYY-MM-DDTHH:MM:SSZ, "unpadded" the same  *)
(* with one-digit month, day or time fields, "offset" ends in +00:00 and   *)
(* "date_only" has no time part.                                           *)
(***************************************************************************)
JDate(d) == [json |-> "str", date |-> d]

IsLeap(y) == (y % 4 = 0 /\ y % 100 # 0) \/ y % 400 = 0

DaysInMonth(y, m) ==
    IF m = 2 THEN (IF IsLeap(y) THEN 29 ELSE 28)
    ELSE IF m \in {4, 6, 9, 11} THEN 30 ELSE 31

\* a parser that takes every text
StrptimeError_AnyText(j) ==
    IF j.json # "str"
    THEN Some(PyError("TypeError", <<Lit("strptime() argument 1 must be str")>>))
    ELSE None

\* datetime.strptime(date_str, "%Y-%m-%dT%H:%M:%SZ"): the exception, or None.
\* strptime takes one-digit fields, so the unpadded shape parses.
StrptimeError(j) ==
    IF j.json # "str"
    THEN Some(PyError("TypeError", <<Lit("strptime() argument 1 must be str")>>))
    ELSE IF j.date.shape \notin {"padded", "unpadded"} \/ j.date.month \notin 1..12
    THEN Some(PyError("ValueError", <<Lit("time data does not match format")>>))
    ELSE IF j.date.day \notin 1..DaysInMonth(j.date.year, j.date.month)
    THEN Some(PyError("ValueError", <<Lit("day is out of range for month")>>))
    ELSE None

\* format_date(date_str): .strftime("%Y-%m-%d") of the parsed date
format_date(j) ==
    FourDigits(j.date.year) \o <<"-">> \o TwoDigits(j.date.month)
        \o <<"-">> \o TwoDigits(j.date.day)

\* repo_data[key] followed by format_date
DateFieldError(repo_data, key) ==
    IF SubscriptError(repo_data, key) # None THEN SubscriptError(repo_data, key)
    ELSE StrptimeError(repo_data.items[key])

\* dict.get(key, default)
Get(j, key, default) == IF key \in DOMAIN j.items THEN j.items[key] ELSE default

\* lines 553-563: the dict display is evaluated top to bottom
RepoSummary(repo_data) ==
    LET err == FirstError(<<SubscriptError(repo_data, "name"),
                            SubscriptError(repo_data, "stargazers_count"),
                            SubscriptError(repo_data, "forks_count"),
                            SubscriptError(repo_data, "watchers_count"),
                            DateFieldError(repo_data, "created_at"),
                            DateFieldError(repo_data, "updated_at")>>)
    IN  IF err # None THEN Raise(err[1])
        ELSE Return(
            [type |-> "dict",
             name |-> repo_data.items["name"],
             description |-> Get(repo_data, "description", JStr("No description available")),
             stargazers_count |-> repo_data.items["stargazers_count"],
             forks_count |-> repo_data.items["forks_count"],
             watchers_count |-> repo_data.items["watchers_count"],
             language |-> Get(repo_data, "language", JStr("Not specified")),
             created_at |-> format_date(repo_data.items["created_at"]),
             updated_at |-> format_date(repo_data.items["updated_at"])])

\* a try block that parses the payload of every 2xx status
RepoDataBody_AnySuccess(t) ==
    CASE t.kind = "timeout" -> Raise(PyError("Timeout", <<Lit("Read timed out.")>>))
      [] t.kind = "connection_error" ->
            Raise(PyError("ConnectionError", <<Lit("Failed to establish a new connection")>>))
      [] t.kind = "request_error" ->
            Raise(PyError("TooManyRedirects", <<Lit("Exceeded 30 redirects.")>>))
      [] t.kind = "response" ->
            IF t.status_code \notin 200..299 THEN Raise(handle_github_error(t))
            ELSE IF JsonError(t) # None THEN Raise(JsonError(t)[1])
            ELSE RepoSummary(t.body)

\* the try block: what it returns or the exception that reaches the handlers
RepoDataBody(t) ==
    CASE t.kind = "timeout" -> Raise(PyError("Timeout", <<Lit("Read timed out.")>>))
      [] t.kind = "connection_error" ->
            Raise(PyError("ConnectionError", <<Lit("Failed to establish a new connection")>>))
      [] t.kind = "request_error" ->
            Raise(PyError("TooManyRedirects", <<Lit("Exceeded 30 redirects.")>>))
      [] t.kind = "response" ->
            IF t.status_code # 200 THEN Raise(handle_github_error(t))
            ELSE IF JsonError(t) # None THEN Raise(JsonError(t)[1])
            ELSE RepoSummary(t.body)

\* except requests.Timeout / except requests.ConnectionError /
\* except GitHubAPIError: raise / except Exception as e
fetch_repo_data(t) ==
    LET body == RepoDataBody(t)
    IN  IF body.kind # "raise" THEN body
        ELSE CASE body.exc.type = "Timeout" ->
                    Raise(GitHubAPIError(<<Lit("Request timed out. Please try again.")>>,
                                         None, None))
               [] body.exc.type = "ConnectionError" ->
                    Raise(GitHubAPIError(
                        <<Lit("Connection error. Please check your internet connection.")>>,
                        None, None))
               [] body.exc.type = "GitHubAPIError" -> body
               [] OTHER ->
                    Raise(GitHubAPIError(<<Lit("Unexpected error: ")>> \o body.exc.message,
                                         None, None))

(***************************************************************************)
(* fetch_language_stats                                                    *)
(***************************************************************************)
\* the number of decimal places a percentage is kept with
FracDigits == 7

RECURSIVE Pow10(_)
Pow10(n) == IF n = 0 THEN 1 ELSE 10 * Pow10(n - 1)

\* the first n decimal places of r / d, for 0 <= r < d, by long division
RECURSIVE Fraction(_, _, _)
Fraction(r, d, n) ==
    IF n = 0 THEN 0
    ELSE ((10 * r) \div d) * Pow10(n - 1) + Fraction((10 * r) % d, d, n - 1)

\* the ratio left unscaled
Percentage_Ratio(count, total) ==
    [whole |-> count \div total, frac |-> Fraction(count % total, total, FracDigits)]

\* (count / total) * 100 with total # 0, as a fixed-point number: the integer
\* part and FracDigits decimal places, cut off. A double keeps more places.
Percentage(count, total) ==
    [whole |-> (100 * count) \div total,
     frac |-> Fraction((100 * count) % total, total, FracDigits)]

RECURSIVE SumOver(_, _)
SumOver(f, keys) ==
    IF keys = {} THEN 0
    ELSE LET k == CHOOSE x \in keys : TRUE
         IN  f[k] + SumOver(f, keys \ {k})

\* sum(languages.values()) raises TypeError unless every value is a number
ValuesSumError(languages) ==
    IF \E k \in DOMAIN languages.items : languages.items[k].json # "int"
    THEN Some(PyError("TypeError",
                      <<Lit("unsupported operand type(s) for +: 'int' and 'str'")>>))
    ELSE None

ValuesSum(languages) ==
    SumOver([k \in DOMAIN languages.items |-> languages.items[k].v],
            DOMAIN languages.items)

\* the "if not languages" test left out
LanguagePercentages_NoEmptyCheck(languages) ==
    IF languages.json # "dict"
    THEN Raise(PyError("AttributeError", <<Lit("object has no attribute 'values'")>>))
    ELSE IF ValuesSumError(languages) # None THEN Raise(ValuesSumError(languages)[1])
    ELSE LET total == ValuesSum(languages)
         IN  IF total = 0
             THEN Raise(PyError("ZeroDivisionError", <<Lit("division by zero")>>))
             ELSE Return([type |-> "dict",
                          items |-> [lang \in DOMAIN languages.items |->
                                       Percentage(languages.items[lang].v, total)]])

\* lines 584-592: the body of the try block after a 200 response was parsed
LanguagePercentages(languages) ==
    IF ~Truthy(languages) THEN Return(PyNone)
    ELSE IF languages.json # "dict"
    THEN Raise(PyError("AttributeError", <<Lit("object has no attribute 'values'")>>))
    ELSE IF ValuesSumError(languages) # None THEN Raise(ValuesSumError(languages)[1])
    ELSE LET total == ValuesSum(languages)
         IN  IF total = 0
             THEN Raise(PyError("ZeroDivisionError", <<Lit("division by zero")>>))
             ELSE Return([type |-> "dict",
                          items |-> [lang \in DOMAIN languages.items |->
                                       Percentage(languages.items[lang].v, total)]])

\* the try block: what it returns or the exception that reaches the handlers
LanguageStatsBody(t) ==
    CASE t.kind = "timeout" -> Raise(PyError("Timeout", <<Lit("Read timed out.")>>))
      [] t.kind = "connection_error" ->
            Raise(PyError("ConnectionError", <<Lit("Failed to establish a new connection")>>))
      [] t.kind = "request_error" ->
            Raise(PyError("TooManyRedirects", <<Lit("Exceeded 30 redirects.")>>))
      [] t.kind = "response" ->
            IF t.status_code # 200 THEN Raise(handle_github_error(t))
            ELSE IF JsonError(t) # None THEN Raise(JsonError(t)[1])
            ELSE LanguagePercentages(t.body)

\* except (requests.Timeout, requests.ConnectionError, GitHubAPIError): raise
\* except Exception as e: raise GitHubAPIError(f"Error fetching language statistics: {str(e)}")
fetch_language_stats(t) ==
    LET body == LanguageStatsBody(t)
    IN  IF body.kind = "raise"
           /\ body.exc.type \notin {"Timeout", "ConnectionError", "GitHubAPIError"}
        THEN Raise(GitHubAPIError(<<Lit("Error fetching language statistics: ")>>
                                     \o body.exc.message, None, None))
        ELSE body

(***************************************************************************)
(* fetch_commit_activity                                                   *)
(***************************************************************************)
\* datetime.fromtimestamp(ts).strftime('%Y-%m-%d') for ts >= 0, the process
\* running in UTC: the civil date of day number ts \div 86400
DateText(ts) ==
    LET z == (ts \div 86400) + 719468
        era == z \div 146097
        doe == z - era * 146097
        yoe == (doe - (doe \div 1460) + (doe \div 36524) - (doe \div 146096)) \div 365
        doy == doe - (365 * yoe + (yoe \div 4) - (yoe \div 100))
        mp == (5 * doy + 2) \div 153
        d == doy - ((153 * mp + 2) \div 5) + 1
        m == IF mp < 10 THEN mp + 3 ELSE mp - 9
        y == yoe + era * 400 + (IF m <= 2 THEN 1 ELSE 0)
    IN  FourDigits(y) \o <<"-">> \o TwoDigits(m) \o <<"-">> \o TwoDigits(d)

DaysOfWeek == 0..6

\* week['days'][day] for day in range(7): the exception it raises, or None
DaysError(week) ==
    IF SubscriptError(week, "days") # None THEN SubscriptError(week, "days")
    ELSE LET days == week.items["days"]
         IN  IF days.json # "list"
             THEN Some(PyError("TypeError", <<Lit("object is not subscriptable")>>))
             ELSE IF Len(days.items) < Cardinality(DaysOfWeek)
             THEN Some(PyError("IndexError", <<Lit("list index out of range")>>))
             ELSE None

RECURSIVE SumSeq(_)
SumSeq(xs) == IF xs = <<>> THEN 0 ELSE Head(xs) + SumSeq(Tail(xs))

\* range(6) in place of range(7)
daily_commits_SixDays(data) ==
    [day \in 1..Cardinality(DaysOfWeek) |->
        IF day = Cardinality(DaysOfWeek) THEN 0
        ELSE SumSeq([i \in 1..Len(data) |-> data[i].items["days"].items[day].v])]

\* "=" in place of "+=": the last week overwrites the slots
daily_commits_LastWeekOnly(data) ==
    [day \in 1..Cardinality(DaysOfWeek) |-> data[Len(data)].items["days"].items[day].v]

\* daily_commits = [0] * 7; for week in data: for day in range(7):
\*     daily_commits[day] += week['days'][day]
daily_commits(data) ==
    [day \in 1..Cardinality(DaysOfWeek) |->
        SumSeq([i \in 1..Len(data) |-> data[i].items["days"].items[day].v])]

Computing ==
    [type |-> "dict", status |-> "computing",
     message |-> <<Lit("GitHub is computing statistics. Please wait a moment and try again.")>>]

\* a body without the test "if not data": an empty series gives zero totals
CommitActivity_NoEmptyCheck(data) ==
    IF data.json = "int"
    THEN Raise(PyError("TypeError", <<Lit("'int' object is not iterable")>>))
    ELSE IF data.json # "list"
    THEN Raise(PyError("TypeError", <<Lit("string indices must be integers")>>))
    ELSE LET weeksOf == data.items
             n == Len(weeksOf)
             err == FirstError(
                      [i \in 1..n |-> SubscriptError(weeksOf[i], "total")]
                      \o [i \in 1..n |-> SubscriptError(weeksOf[i], "week")]
                      \o [i \in 1..n |-> DaysError(weeksOf[i])])
         IN  IF err # None THEN Raise(err[1])
             ELSE Return(
                 [type |-> "dict", status |-> "ready",
                  total_commits |-> SumSeq([i \in 1..n |-> weeksOf[i].items["total"].v]),
                  weeks |-> [i \in 1..n |-> DateText(weeksOf[i].items["week"].v)],
                  commits |-> [i \in 1..n |-> weeksOf[i].items["total"].v],
                  daily_commits |->
                      [day \in 1..Cardinality(DaysOfWeek) |->
                          SumSeq([i \in 1..n |-> weeksOf[i].items["days"].items[day].v])]])

\* a body whose commits list is filled newest week first
CommitActivity_NewestFirst(data) ==
    IF ~Truthy(data) THEN Return(PyNone)
    ELSE IF data.json # "list"
    THEN Raise(PyError("TypeError", <<Lit("string indices must be integers")>>))
    ELSE LET weeksOf == data.items
             n == Len(weeksOf)
             err == FirstError(
                      [i \in 1..n |-> SubscriptError(weeksOf[i], "total")]
                      \o [i \in 1..n |-> SubscriptError(weeksOf[i], "week")]
                      \o [i \in 1..n |-> DaysError(weeksOf[i])])
         IN  IF err # None THEN Raise(err[1])
             ELSE Return(
                 [type |-> "dict", status |-> "ready",
                  total_commits |-> SumSeq([i \in 1..n |-> weeksOf[i].items["total"].v]),
                  weeks |-> [i \in 1..n |-> DateText(weeksOf[i].items["week"].v)],
                  commits |-> [i \in 1..n |-> weeksOf[n + 1 - i].items["total"].v],
                  daily_commits |->
                      [day \in 1..Cardinality(DaysOfWeek) |->
                          SumSeq([i \in 1..n |-> weeksOf[i].items["days"].items[day].v])]])

\* a body that leaves out the week records without a usable 'days' list
CommitActivity_SkipIncompleteWeeks(data) ==
    IF ~Truthy(data) THEN Return(PyNone)
    ELSE IF data.json # "list"
    THEN Raise(PyError("TypeError", <<Lit("string indices must be integers")>>))
    ELSE LET weeksOf == SelectSeq(data.items, LAMBDA w : DaysError(w) = None)
             n == Len(weeksOf)
             err == FirstError(
                      [i \in 1..n |-> SubscriptError(weeksOf[i], "total")]
                      \o [i \in 1..n |-> SubscriptError(weeksOf[i], "week")])
         IN  IF err # None THEN Raise(err[1])
             ELSE Return(
                 [type |-> "dict", status |-> "ready",
                  total_commits |-> SumSeq([i \in 1..n |-> weeksOf[i].items["total"].v]),
                  weeks |-> [i \in 1..n |-> DateText(weeksOf[i].items["week"].v)],
                  commits |-> [i \in 1..n |-> weeksOf[i].items["total"].v],
                  daily_commits |->
                      [day \in 1..Cardinality(DaysOfWeek) |->
                          SumSeq([i \in 1..n |-> weeksOf[i].items["days"].items[day].v])]])

\* lines 615-643: the body of the try block after a 200 response was parsed
CommitActivity(data) ==
    IF ~Truthy(data) THEN Return(PyNone)
    ELSE IF data.json = "int"
    THEN Raise(PyError("TypeError", <<Lit("'int' object is not iterable")>>))
    ELSE IF data.json # "list"
    \* iterating a dict or a string gives strings: week['total'] fails
    THEN Raise(PyError("TypeError", <<Lit("string indices must be integers")>>))
    ELSE LET weeksOf == data.items
             n == Len(weeksOf)
             err == FirstError(
                      [i \in 1..n |-> SubscriptError(weeksOf[i], "total")]
                      \o [i \in 1..n |-> SubscriptError(weeksOf[i], "week")]
                      \o [i \in 1..n |-> DaysError(weeksOf[i])])
         IN  IF err # None THEN Raise(err[1])
             ELSE Return(
                 [type |-> "dict", status |-> "ready",
                  total_commits |-> SumSeq([i \in 1..n |-> weeksOf[i].items["total"].v]),
                  weeks |-> [i \in 1..n |-> DateText(weeksOf[i].items["week"].v)],
                  commits |-> [i \in 1..n |-> weeksOf[i].items["total"].v],
                  daily_commits |-> daily_commits(weeksOf)])

\* the try block: what it returns or the exception that reaches the handlers
CommitActivityBody(t) ==
    CASE t.kind = "timeout" -> Raise(PyError("Timeout", <<Lit("Read timed out.")>>))
      [] t.kind = "connection_error" ->
            Raise(PyError("ConnectionError", <<Lit("Failed to establish a new connection")>>))
      [] t.kind = "request_error" ->
            Raise(PyError("TooManyRedirects", <<Lit("Exceeded 30 redirects.")>>))
      [] t.kind = "response" ->
            IF t.status_code = 202 THEN Return(Computing)
            ELSE IF t.status_code # 200 THEN Raise(handle_github_error(t))
            ELSE IF JsonError(t) # None THEN Raise(JsonError(t)[1])
            ELSE CommitActivity(t.body)

\* the 202 test made after the payload is parsed
fetch_commit_activity_ParseFirst(t) ==
    LET body == IF t.kind = "response" /\ t.status_code = 202
                THEN IF JsonError(t) # None THEN Raise(JsonError(t)[1])
                     ELSE Return(Computing)
                ELSE CommitActivityBody(t)
    IN  IF body.kind # "raise" THEN body
        ELSE Raise(GitHubAPIError(<<Lit("Error fetching commit activity: ")>>
                                     \o body.exc.message, None, None))

\* except requests.Timeout / except requests.ConnectionError /
\* except Exception as e: raise GitHubAPIError(f"Error fetching commit activity: {str(e)}")
\* (GitHubAPIError is an Exception: the last handler takes it too)
fetch_commit_activity(t) ==
    LET body == CommitActivityBody(t)
    IN  IF body.kind # "raise" THEN body
        ELSE CASE body.exc.type = "Timeout" ->
                    Raise(GitHubAPIError(
                        <<Lit("Request timed out while fetching commit activity.")>>,
                        None, None))
               [] body.exc.type = "ConnectionError" ->
                    Raise(GitHubAPIError(
                        <<Lit("Connection error while fetching commit activity.")>>,
                        None, None))
               [] OTHER ->
                    Raise(GitHubAPIError(<<Lit("Error fetching commit activity: ")>>
                                            \o body.exc.message, None, None))

(***************************************************************************)
(* What the transport can do with a request.                               *)
(***************************************************************************)
\* largest byte count of a language
MaxBytes == 3

StatusCodes == {200, 201, 202, 204, 401, 403, 404, 429, 500}

HeaderSets ==
    [remaining : {None, Some(<<"4", "2">>)},
     reset : {None, Some(<<>>), Some(<<"3", "7", "2", "5">>), Some(<<"s", "o", "o", "n">>)}]

Languages == {"Python", "JavaScript", "Go"}

LanguagePayloads ==
    {NotJson, JNull, JList(<<>>), JList(<<JStr("Python")>>),
     JDict([k \in {"message"} |-> JStr("Not Found")]),
     JDict([k \in {"Python", "JavaScript"} |->
              IF k = "Python" THEN JInt(300) ELSE JInt(100)])}
    \cup UNION {{JDict([k \in ks |-> JInt(f[k])]) : f \in [ks -> 0..MaxBytes]}
                : ks \in SUBSET Languages}

\* longest weekly series
MaxWeeks == 2

Week(ts, total, days) ==
    JDict([k \in {"week", "total", "days"} |->
             CASE k = "week" -> JInt(ts)
               [] k = "total" -> JInt(total)
               [] k = "days" -> JList([d \in 1..Len(days) |-> JInt(days[d])])])

Without(week, key) ==
    JDict([k \in DOMAIN week.items \ {key} |-> week.items[k]])

DayVectors ==
    {<<0, 0, 0, 0, 0, 0, 0>>, <<0, 0, 0, 2, 0, 0, 0>>,
     <<1, 0, 0, 0, 0, 0, 4>>, <<0, 1, 1, 0, 0, 1, 0>>}

\* Sundays 2012-05-06 and 2012-05-13, 00:00 UTC
WeekStamps == {1336262400, 1336867200}

ConsistentWeeks == {Week(ts, SumSeq(days), days) : ts \in WeekStamps, days \in DayVectors}

WeekRecords ==
    ConsistentWeeks
    \cup {Week(1336262400, 5, <<0, 0, 0, 0, 0, 0, 0>>),
          Week(1336262400, 1, <<1, 0, 0, 0, 0, 0>>),
          Without(Week(1336262400, 5, <<1, 0, 0, 0, 0, 0, 4>>), "days"),
          Without(Week(1336262400, 5, <<1, 0, 0, 0, 0, 0, 4>>), "total"),
          Without(Week(1336262400, 5, <<1, 0, 0, 0, 0, 0, 4>>), "week"),
          JDict([k \in {"week", "total", "days"} |->
                   IF k = "days" THEN JNull ELSE JInt(0)])}

RECURSIVE SeqsUpTo(_, _)
SeqsUpTo(S, n) ==
    IF n = 0 THEN {<<>>}
    ELSE LET shorter == SeqsUpTo(S, n - 1)
         IN  shorter \cup {Append(xs, x) : xs \in {y \in shorter : Len(y) = n - 1},
                                           x \in S}

ErrorBodies == {NotJson, JDict([k \in {"message"} |-> JStr("Not Found")])}

CommitPayloads ==
    {NotJson, JNull, JDict(<<>>)} \cup ErrorBodies
    \cup {JList(ws) : ws \in SeqsUpTo(WeekRecords, MaxWeeks)}

\* most required keys a metadata payload lacks
MaxMissingKeys == 1

RequiredKeys ==
    {"name", "stargazers_count", "forks_count", "watchers_count", "created_at", "updated_at"}

DateOf(shape, y, m, d) ==
    JDate([shape |-> shape, year |-> y, month |-> m, day |-> d,
           hour |-> 19, minute |-> 1, second |-> 12])

CreatedValues ==
    {DateOf("padded", 2011, 1, 26), DateOf("unpadded", 2011, 1, 6),
     DateOf("offset", 2011, 1, 26), DateOf("padded", 2011, 2, 30), JNull}

UpdatedValues == {DateOf("padded", 2024, 2, 29), DateOf("date_only", 2024, 2, 29)}

\* an optional key is absent (None), null or a text
OptionalValues(text) == {None, Some(JNull), Some(JStr(text))}

RepoDocument(missing, created, updated, description, language) ==
    LET present == (RequiredKeys \ missing)
                     \cup (IF description # None THEN {"description"} ELSE {})
                     \cup (IF language # None THEN {"language"} ELSE {})
    IN  JDict([k \in present |->
                 CASE k = "name" -> JStr("Hello-World")
                   [] k = "stargazers_count" -> JInt(80)
                   [] k = "forks_count" -> JInt(9)
                   [] k = "watchers_count" -> JInt(80)
                   [] k = "created_at" -> created
                   [] k = "updated_at" -> updated
                   [] k = "description" -> description[1]
                   [] k = "language" -> language[1]])

RepoPayloads ==
    {NotJson, JNull, JList(<<>>)} \cup ErrorBodies
    \cup {RepoDocument(missing, created, updated, description, language) :
             missing \in {m \in SUBSET RequiredKeys : Cardinality(m) <= MaxMissingKeys},
             created \in CreatedValues, updated \in UpdatedValues,
             description \in OptionalValues("My first repository"),
             language \in OptionalValues("Python")}

\* documents a fetcher turns into a value when they come with status 200
GoodRepoPayload ==
    RepoDocument({}, DateOf("padded", 2011, 1, 26), DateOf("padded", 2024, 2, 29),
                 Some(JStr("My first repository")), Some(JStr("Python")))
GoodLanguagePayload ==
    JDict([k \in {"Python", "JavaScript"} |-> IF k = "Python" THEN JInt(300) ELSE JInt(100)])
GoodCommitPayload == JList(<<Week(1336262400, 5, <<1, 0, 0, 0, 0, 0, 4>>)>>)

\* the same documents sent with another status
Misstated(parsed, payload) ==
    [kind : {"response"}, status_code : StatusCodes \ parsed,
     headers : {[remaining |-> None, reset |-> None]}, body : {payload}]

\* the responses of an endpoint: every payload with the statuses whose payload
\* the fetcher may read, an error body with the others
Responses(parsed, bodies) ==
    [kind : {"response"}, status_code : parsed, headers : HeaderSets, body : bodies]
    \cup [kind : {"response"}, status_code : StatusCodes \ parsed,
          headers : HeaderSets, body : ErrorBodies]

TransportFailures ==
    {[kind |-> "timeout"], [kind |-> "connection_error"], [kind |-> "request_error"]}

\* no batch is being analysed: a function is called by itself
NoBatch == repo_urls = <<>> /\ idx = 0 /\ requests = <<>> /\ reports = <<>>

(***************************************************************************)
(* The state machine.                                                      *)
(***************************************************************************)
InitExtract ==
    /\ NoBatch
    /\ pc = "call"
    /\ fn = "extract_repo_info"
    /\ url \in Urls
    /\ transport = NoTransport
    /\ result = Pending

InitFetch ==
    /\ NoBatch
    /\ pc = "call"
    /\ url = <<>>
    /\ result = Pending
    /\ \/ /\ fn = "fetch_repo_data"
          /\ transport \in TransportFailures \cup Responses({200}, RepoPayloads)
                             \cup Misstated({200}, GoodRepoPayload)
       \/ /\ fn = "fetch_language_stats"
          /\ transport \in TransportFailures \cup Responses({200}, LanguagePayloads)
                             \cup Misstated({200}, GoodLanguagePayload)
       \/ /\ fn = "fetch_commit_activity"
          /\ transport \in TransportFailures \cup Responses({200, 202}, CommitPayloads)
                             \cup Misstated({200}, GoodCommitPayload)

CallExtractRepoInfo ==
    /\ pc = "call"
    /\ fn = "extract_repo_info"
    /\ result' = Return(extract_repo_info(url))
    /\ pc' = "done"
    /\ UNCHANGED <<fn, url, transport>>
    /\ UNCHANGED mainVars

CallFetchRepoData ==
    /\ pc = "call"
    /\ fn = "fetch_repo_data"
    /\ result' = fetch_repo_data(transport)
    /\ pc' = "done"
    /\ UNCHANGED <<fn, url, transport>>
    /\ UNCHANGED mainVars

CallFetchLanguageStats ==
    /\ pc = "call"
    /\ fn = "fetch_language_stats"
    /\ result' = fetch_language_stats(transport)
    /\ pc' = "done"
    /\ UNCHANGED <<fn, url, transport>>
    /\ UNCHANGED mainVars

CallFetchCommitActivity ==
    /\ pc = "call"
    /\ fn = "fetch_commit_activity"
    /\ result' = fetch_commit_activity(transport)
    /\ pc' = "done"
    /\ UNCHANGED <<fn, url, transport>>
    /\ UNCHANGED mainVars

Init == InitFetch

Next ==
    \/ CallFetchRepoData
    \/ CallFetchLanguageStats
    \/ CallFetchCommitActivity

Spec == Init /\ [][Next]_vars

SpecExtract == InitExtract /\ [][CallExtractRepoInfo]_vars

(***************************************************************************)
(* Properties of the fetchers.                                             *)
(***************************************************************************)
Fetchers == {"fetch_repo_data", "fetch_language_stats", "fetch_commit_activity"}

FetchDone == pc = "done" /\ fn \in Fetchers
Done(f) == pc = "done" /\ fn = f
Answered(status) == transport.kind = "response" /\ transport.status_code = status

RaisedGitHubAPIError == result.kind = "raise" /\ result.exc.type = "GitHubAPIError"

\* the X-RateLimit-Reset header as GitHub sends it: absent, or a number
ResetHeaderIsNumber ==
    transport.headers.reset = None
      \/ (transport.headers.reset # Some(<<>>) /\ ParseInt(transport.headers.reset[1]) # None)

\* C1: when the remote API answers 404 to any of the three fetchers, the
\* error that leaves the fetcher is a GitHubAPIError with status_code 404 and
\* the "Repository not found" message, whichever endpoint produced it. Stated
\* for the responses whose reset header is absent or a number, so that what
\* refutes it is the endpoint and not a header no server sends.
C1_NotFoundFromEveryFetcher ==
    (FetchDone /\ Answered(404) /\ ResetHeaderIsNumber) =>
        /\ RaisedGitHubAPIError
        /\ result.exc.status_code = Some(404)
        /\ result.exc.message = <<Lit("Repository not found. Please check the URL.")>>

\* the messages of the source that tell the user to try again
RetrySuggestions == {Lit("Request timed out. Please try again.")}
\* the messages of the source that report a timeout
TimeoutMessages ==
    {Lit("Request timed out. Please try again."),
     Lit("Request timed out while fetching commit activity.")}

\* C2: when the transport call times out on any of the three endpoints, the
\* fetcher raises a GitHubAPIError that stands for Timeout and whose message
\* contains a retry suggestion; it returns no value.
C2_TimeoutWithRetrySuggestion ==
    (FetchDone /\ transport.kind = "timeout") =>
        /\ RaisedGitHubAPIError
        /\ \E i \in 1..Len(result.exc.message) : result.exc.message[i] \in TimeoutMessages
        /\ \E i \in 1..Len(result.exc.message) : result.exc.message[i] \in RetrySuggestions

\* C3: for every transport outcome a fetcher call either returns a value or
\* raises one GitHubAPIError; no exception of another type leaves a fetcher.
C3_ValueOrGitHubAPIError ==
    FetchDone => (result.kind = "return" \/ RaisedGitHubAPIError)

\* C4: whenever the commit-activity endpoint answers 202,
\* fetch_commit_activity returns the Computing result (status "computing" with
\* a message) and raises nothing, whatever the headers and the body are.
C4_AcceptedGivesComputing ==
    (Done("fetch_commit_activity") /\ Answered(202)) =>
        /\ result.kind = "return"
        /\ result.value.type = "dict"
        /\ result.value.status = "computing"
        /\ result.value.message # <<>>

\* a 202 whose body is no JSON document and whose reset header is no number
C4_Witness ==
    /\ Done("fetch_commit_activity")
    /\ Answered(202)
    /\ transport.body = NotJson
    /\ transport.headers.reset = Some(<<"s", "o", "o", "n">>)
    /\ result.kind = "return"
    /\ result.value.status = "computing"

IsReady ==
    /\ Done("fetch_commit_activity")
    /\ result.kind = "return"
    /\ result.value.type = "dict"
    /\ result.value.status = "ready"

\* the per-day counts of week record w, and the total it carries
DaysOfRecord(w) == [d \in 1..Len(w.items["days"].items) |-> w.items["days"].items[d].v]
TotalOfRecord(w) == w.items["total"].v

\* every week record has its three keys and a breakdown of seven days
CompleteSeries(body) ==
    /\ body.json = "list"
    /\ body.items # <<>>
    /\ \A i \in 1..Len(body.items) :
          /\ DOMAIN body.items[i].items = {"week", "total", "days"}
          /\ body.items[i].items["days"].json = "list"
          /\ Len(body.items[i].items["days"].items) = 7

\* ... and the total of every week record is the sum of its seven days
ConsistentSeries(body) ==
    /\ CompleteSeries(body)
    /\ \A i \in 1..Len(body.items) :
          TotalOfRecord(body.items[i]) = SumSeq(DaysOfRecord(body.items[i]))

NonEmptyByteCounts ==
    /\ Answered(200)
    /\ transport.body.json = "dict"
    /\ DOMAIN transport.body.items # {}
    /\ \A k \in DOMAIN transport.body.items : transport.body.items[k].json = "int"

ReturnedMapping == result.kind = "return" /\ result.value.type = "dict"

\* the sum of the percentages minus 100, in units of 10^-FracDigits
SumError(items) ==
    (SumOver([k \in DOMAIN items |-> items[k].whole], DOMAIN items) - 100) * Pow10(FracDigits)
      + SumOver([k \in DOMAIN items |-> items[k].frac], DOMAIN items)

\* 1e-6 in units of 10^-FracDigits
Tolerance == Pow10(FracDigits - 6)

SumsToHundred(items) == SumError(items) \in (0 - Tolerance)..Tolerance

\* C6: for every non-empty mapping of language to byte count returned with
\* status 200, fetch_language_stats returns a mapping of percentages whose
\* sum is 100 within 1e-6; it does not fail for any non-empty input.
C6_PercentagesSumToHundred ==
    (Done("fetch_language_stats") /\ NonEmptyByteCounts) =>
        /\ ReturnedMapping
        /\ SumsToHundred(result.value.items)

\* the percentage p is 100 * count / total, cut off after FracDigits places
IsPercentageOf(p, count, total) ==
    LET r == 100 * count - p.whole * total
    IN  /\ 0 <= r /\ r < total
        /\ r = 0 => p.frac = 0
        /\ r > 0 => /\ p.frac * total <= r * Pow10(FracDigits)
                    /\ r * Pow10(FracDigits) < (p.frac + 1) * total

HelloWorldLanguages ==
    JDict([k \in {"Python", "JavaScript"} |-> IF k = "Python" THEN JInt(300) ELSE JInt(100)])

\* C7: fetch_language_stats returns a mapping with exactly the language names
\* of the payload, each mapped to 100 * bytes[lang] / sum of all byte counts;
\* {"Python": 300, "JavaScript": 100} yields {"Python": 75, "JavaScript": 25}.
\* Stated for the payloads with a sum: a non-empty mapping with a positive
\* total; every mapping the function returns comes from such a payload.
C7_PercentageOfTotalPerLanguage ==
    /\ (Done("fetch_language_stats") /\ ReturnedMapping) =>
          NonEmptyByteCounts /\ ValuesSum(transport.body) > 0
    /\ (Done("fetch_language_stats") /\ NonEmptyByteCounts /\ ValuesSum(transport.body) > 0) =>
          /\ ReturnedMapping
          /\ DOMAIN result.value.items = DOMAIN transport.body.items
          /\ \A lang \in DOMAIN transport.body.items :
                IsPercentageOf(result.value.items[lang],
                               transport.body.items[lang].v, ValuesSum(transport.body))
    /\ (Done("fetch_language_stats") /\ Answered(200)
          /\ transport.body = HelloWorldLanguages) =>
          /\ ReturnedMapping
          /\ result.value.items =
                [k \in {"Python", "JavaScript"} |->
                    IF k = "Python" THEN [whole |-> 75, frac |-> 0]
                    ELSE [whole |-> 25, frac |-> 0]]

\* three languages whose shares are no whole numbers
C7_Witness ==
    /\ Done("fetch_language_stats")
    /\ NonEmptyByteCounts
    /\ Cardinality(DOMAIN transport.body.items) = 3
    /\ ValuesSum(transport.body) = 7
    /\ ReturnedMapping
    /\ \E lang \in DOMAIN result.value.items : result.value.items[lang].frac # 0

\* C8: when the languages endpoint answers 200 with an empty mapping,
\* fetch_language_stats returns None: no error, no empty mapping.
C8_EmptyMappingGivesNone ==
    (Done("fetch_language_stats") /\ Answered(200) /\ transport.body = JDict(<<>>)) =>
        result = Return(PyNone)

C8_Witness ==
    /\ Done("fetch_language_stats")
    /\ Answered(200)
    /\ transport.body = JDict(<<>>)
    /\ result.kind = "return"
    /\ result.value.type = "None"

(***************************************************************************)
(* Properties of extract_repo_info.                                        *)
(***************************************************************************)
SlashFree(s) == \A n \in 1..Len(s) : s[n] # "/"

\* <<i, j, k>>: "github.com/" starts at i, the owner is u[i+11..j-1], u[j] is
\* the "/" after it and the name segment is u[j+1..k], which ends at the end
\* of the URL or before the next "/"
HostStarts(u) == {i \in 1..Len(u) : IsLiteralAt(u, i, PatternLiteral)}

OwnerEnds(u, i) ==
    {j \in (i + Len(PatternLiteral) + 1)..Len(u) :
        u[j] = "/" /\ SlashFree(SubSeq(u, i + Len(PatternLiteral), j - 1))}

SegmentEnds(u, j) ==
    {k \in (j + 1)..Len(u) :
        SlashFree(SubSeq(u, j + 1, k)) /\ (k = Len(u) \/ u[k + 1] = "/")}

Occurrences(u) ==
    UNION {UNION {{<<i, j, k>> : k \in SegmentEnds(u, j)} : j \in OwnerEnds(u, i)}
           : i \in HostStarts(u)}

FirstOccurrence(u) ==
    CHOOSE t \in Occurrences(u) : \A x \in Occurrences(u) : t[1] <= x[1]

OwnerOf(u, t) == SubSeq(u, t[1] + Len(PatternLiteral), t[2] - 1)
SegmentOf(u, t) == SubSeq(u, t[2] + 1, t[3])

WithoutGitSuffix(name) ==
    IF Len(name) >= Len(DotGit)
          /\ SubSeq(name, Len(name) - Len(DotGit) + 1, Len(name)) = DotGit
    THEN SubSeq(name, 1, Len(name) - Len(DotGit))
    ELSE name

ExtractDone == pc = "done" /\ fn = "extract_repo_info"

\* C9: for every URL that contains github.com/<owner>/<name> or
\* github.com/<owner>/<name>.git, extract_repo_info returns exactly
\* (owner, name): the owner unchanged, the name with a trailing ".git"
\* removed and otherwise unchanged.
C9_ExactOwnerAndName ==
    (ExtractDone /\ Occurrences(url) # {}) =>
        LET t == FirstOccurrence(url)
        IN  result = Return(<<Some(OwnerOf(url, t)),
                              Some(WithoutGitSuffix(SegmentOf(url, t)))>>)

\* C10: for every input string that does not contain the pattern
\* github.com/<owner>/<name>, extract_repo_info returns the null pair
\* (None, None) and raises nothing.
C10_NoMatchGivesNullPair ==
    (ExtractDone /\ Occurrences(url) = {}) => result = Return(<<None, None>>)

\* a URL that names the host and an owner but no repository
C10_Witness ==
    /\ ExtractDone
    /\ Occurrences(url) = {}
    /\ \E i \in 1..Len(url) :
          /\ IsLiteralAt(url, i, PatternLiteral)
          /\ i + Len(PatternLiteral) <= Len(url)
          /\ url[i + Len(PatternLiteral)] # "/"
    /\ result = Return(<<None, None>>)

(***************************************************************************)
(* handle_github_error called by itself, with every status and a wider     *)
(* choice of rate-limit headers.                                           *)
(***************************************************************************)
ErrorHeaderSets ==
    [remaining : {None, Some(<<>>), Some(<<"0">>), Some(<<"4", "2">>)},
     reset : {None, Some(<<>>), Some(<<"3", "7", "2", "5">>),
              Some(<<"8", "6", "3", "9", "9">>), Some(<<"s", "o", "o", "n">>),
              Some(<<"1", "2", ".", "5">>)}]

ErrorResponses ==
    [kind : {"response"}, status_code : StatusCodes \ {200},
     headers : ErrorHeaderSets, body : ErrorBodies]

InitError ==
    /\ NoBatch
    /\ pc = "call"
    /\ fn = "handle_github_error"
    /\ url = <<>>
    /\ transport \in ErrorResponses
    /\ result = Pending

CallHandleGithubError ==
    /\ pc = "call"
    /\ fn = "handle_github_error"
    /\ result' = Raise(handle_github_error(transport))
    /\ pc' = "done"
    /\ UNCHANGED <<fn, url, transport>>
    /\ UNCHANGED mainVars

SpecError == InitError /\ [][CallHandleGithubError]_vars

\* the rendering display_error_message selects for an exception, named as
\* the error kinds: by status_code for a GitHubAPIError, generic otherwise
ErrorKind(e) ==
    IF e.type # "GitHubAPIError" THEN "Unexpected"
    ELSE CASE e.status_code \in {Some(403), Some(429)} ->
                 IF e.status_code = Some(403) THEN "RateLimited" ELSE "TooManyRequests"
           [] e.status_code = Some(404) -> "NotFound"
           [] e.status_code = Some(401) -> "Unauthorized"
           [] OTHER -> "Other"

(***************************************************************************)
(* Properties of handle_github_error.                                      *)
(***************************************************************************)
ErrorDone == pc = "done" /\ fn = "handle_github_error"

\* a header value as it was received, "Unknown" for a header that is missing
Verbatim(header) == IF header # None THEN Chars(header[1]) ELSE Lit("Unknown")

RateLimitMessage(reset_time, remaining_calls) ==
    <<Lit("Rate limit exceeded. Resets at "), reset_time,
      Lit(". Remaining calls: "), remaining_calls>>

\* C11: a response with status 403 yields a GitHubAPIError with status_code
\* 403 whose remaining-calls value and whose reset-time value are the
\* X-RateLimit-Remaining and X-RateLimit-Reset headers as received, and
\* "Unknown" for a missing header. Stated for the responses whose reset header
\* is absent or a number.
C11_RateLimitValuesVerbatim ==
    (ErrorDone /\ Answered(403) /\ ResetHeaderIsNumber) =>
        /\ RaisedGitHubAPIError
        /\ result.exc.status_code = Some(403)
        /\ result.exc.remaining_calls = Some(Verbatim(transport.headers.remaining))
        /\ result.exc.message = RateLimitMessage(Verbatim(transport.headers.reset),
                                                 Verbatim(transport.headers.remaining))

\* the reset time the message shows for the reset headers of the inputs
ExpectedResetText(header) ==
    CASE header = None -> Lit("Unknown")
      [] header = Some(<<>>) -> Lit("Unknown")
      [] header = Some(<<"3", "7", "2", "5">>) ->
            Chars(<<"0", "1", ":", "0", "2", ":", "0", "5">>)
      [] header = Some(<<"8", "6", "3", "9", "9">>) ->
            Chars(<<"2", "3", ":", "5", "9", ":", "5", "9">>)

\* C11 (amended): a response with status 403 whose X-RateLimit-Reset header is
\* absent, empty or a decimal number yields a GitHubAPIError with status_code
\* 403; its remaining_calls is the X-RateLimit-Remaining header as received,
\* "Unknown" when missing, and its message shows that value and the reset
\* header converted from a Unix timestamp to HH:MM:SS, "Unknown" when the
\* header is missing or empty. The exception has no reset-time field.
C11_RateLimitValuesFromHeaders ==
    (ErrorDone /\ Answered(403)
       /\ (ResetHeaderIsNumber \/ transport.headers.reset = Some(<<>>))) =>
        /\ RaisedGitHubAPIError
        /\ result.exc.status_code = Some(403)
        /\ result.exc.remaining_calls = Some(Verbatim(transport.headers.remaining))
        /\ result.exc.message = RateLimitMessage(ExpectedResetText(transport.headers.reset),
                                                 Verbatim(transport.headers.remaining))
        /\ DOMAIN result.exc = {"type", "message", "status_code", "remaining_calls"}

\* a 403 with both headers: 42 calls remaining, reset 3725 seconds after the epoch
C11_Witness ==
    /\ ErrorDone
    /\ Answered(403)
    /\ transport.headers.remaining = Some(<<"4", "2">>)
    /\ transport.headers.reset = Some(<<"3", "7", "2", "5">>)
    /\ RaisedGitHubAPIError
    /\ result.exc.message[2] = Chars(<<"0", "1", ":", "0", "2", ":", "0", "5">>)
    /\ result.exc.message[4] = Chars(<<"4", "2">>)

\* C12: handle_github_error maps every response to a GitHubAPIError that
\* carries the response's status code, whatever the headers contain: 404 to
\* NotFound, 403 to RateLimited, 401 to Unauthorized, 429 to TooManyRequests
\* with the reset time in the message, every other status to Other with the
\* raw status and the body text in the message.
C12_TotalMappingCarriesStatus ==
    ErrorDone =>
        /\ RaisedGitHubAPIError
        /\ result.exc.status_code = Some(transport.status_code)
        /\ ErrorKind(result.exc) =
             (CASE transport.status_code = 404 -> "NotFound"
                [] transport.status_code = 403 -> "RateLimited"
                [] transport.status_code = 401 -> "Unauthorized"
                [] transport.status_code = 429 -> "TooManyRequests"
                [] OTHER -> "Other")
        /\ transport.status_code = 429 =>
             /\ Len(result.exc.message) = 3
             /\ result.exc.message[2] \in
                  {Lit("Unknown")} \cup {Chars(ClockText(n)) : n \in 0..86399}
        /\ transport.status_code \notin {404, 403, 401, 429} =>
             result.exc.message = <<Lit("GitHub API error: "), Num(transport.status_code),
                                    Lit(" - "), Raw(transport.body)>>

(***************************************************************************)
(* Properties of the daily distribution and of incomplete week records.    *)
(***************************************************************************)
\* the week records of the payload that was answered
WeeksAnswered == transport.body.items

\* the example of two weeks: total 5 with days 1,0,0,0,0,0,4 and total 3 with
\* days 0,1,1,0,0,1,0
IsTwoWeekExample ==
    /\ Done("fetch_commit_activity")
    /\ Answered(200)
    /\ transport.body.json = "list"
    /\ Len(WeeksAnswered) = 2
    /\ \E s1, s2 \in WeekStamps :
          WeeksAnswered = <<Week(s1, 5, <<1, 0, 0, 0, 0, 0, 4>>),
                            Week(s2, 3, <<0, 1, 1, 0, 0, 1, 0>>)>>

\* C19: daily_commits of a Ready result has exactly 7 slots and slot d is the
\* sum over all weeks of the payload of that week's days[d]; the two-week
\* example gives total_commits 8 and daily_commits 1,1,1,0,0,1,4.
C19_DailyCommitsSevenSlots ==
    /\ IsReady =>
         /\ Len(result.value.daily_commits) = 7
         /\ \A d \in 1..7 :
               result.value.daily_commits[d] =
                   SumSeq([i \in 1..Len(WeeksAnswered) |-> DaysOfRecord(WeeksAnswered[i])[d]])
    /\ IsTwoWeekExample =>
         /\ IsReady
         /\ result.value.total_commits = 8
         /\ result.value.daily_commits = <<1, 1, 1, 0, 0, 1, 4>>

C19_Witness ==
    /\ IsTwoWeekExample
    /\ IsReady
    /\ result.value.daily_commits = <<1, 1, 1, 0, 0, 1, 4>>

\* week record w has no per-day breakdown: the key is missing or null
LacksDays(w) ==
    w.json = "dict" /\ ("days" \notin DOMAIN w.items \/ w.items["days"] = JNull)

\* C20: when a week record of a status-200 commit-activity payload lacks its
\* per-day breakdown, fetch_commit_activity raises a GitHubAPIError of kind
\* Other (no status code); it returns no Ready result that leaves the week out.
C20_MissingDaysIsFatal ==
    (Done("fetch_commit_activity") /\ Answered(200) /\ transport.body.json = "list"
       /\ \E i \in 1..Len(WeeksAnswered) : LacksDays(WeeksAnswered[i])) =>
        /\ RaisedGitHubAPIError
        /\ ErrorKind(result.exc) = "Other"
        /\ result.exc.status_code = None
        /\ result.exc.message[1] = Lit("Error fetching commit activity: ")

\* a complete week followed by a week without 'days': KeyError 'days'
C20_Witness ==
    /\ Done("fetch_commit_activity")
    /\ Answered(200)
    /\ transport.body.json = "list"
    /\ Len(WeeksAnswered) = 2
    /\ ~LacksDays(WeeksAnswered[1])
    /\ DaysError(WeeksAnswered[1]) = None
    /\ "days" \notin DOMAIN WeeksAnswered[2].items
    /\ RaisedGitHubAPIError
    /\ result.exc.message =
         <<Lit("Error fetching commit activity: "), Lit("'"), Lit("days"), Lit("'")>>

(***************************************************************************)
(* check_rate_limit                                                        *)
(***************************************************************************)
\* the try block: the record it returns, PyNone where it falls through to
\* "return None", or the exception that reaches "except Exception"
CheckRateLimitBody(t) ==
    CASE t.kind = "timeout" -> Raise(PyError("Timeout", <<Lit("Read timed out.")>>))
      [] t.kind = "connection_error" ->
            Raise(PyError("ConnectionError", <<Lit("Failed to establish a new connection")>>))
      [] t.kind = "request_error" ->
            Raise(PyError("TooManyRedirects", <<Lit("Exceeded 30 redirects.")>>))
      [] t.kind = "response" ->
            IF t.status_code # 200 THEN Return(PyNone)
            ELSE IF JsonError(t) # None THEN Raise(JsonError(t)[1])
            ELSE IF SubscriptError(t.body, "resources") # None
            THEN Raise(SubscriptError(t.body, "resources")[1])
            ELSE IF SubscriptError(t.body.items["resources"], "core") # None
            THEN Raise(SubscriptError(t.body.items["resources"], "core")[1])
            ELSE LET core == t.body.items["resources"].items["core"]
                     err == FirstError(
                              <<SubscriptError(core, "remaining"),
                                SubscriptError(core, "reset"),
                                IF SubscriptError(core, "reset") = None
                                     /\ core.items["reset"].json # "int"
                                THEN Some(PyError("TypeError",
                                       <<Lit("an integer is required")>>))
                                ELSE None,
                                SubscriptError(core, "limit")>>)
                 IN  IF err # None THEN Raise(err[1])
                     ELSE Return([type |-> "dict",
                                  remaining |-> core.items["remaining"],
                                  reset_time |-> ClockText(core.items["reset"].v),
                                  limit |-> core.items["limit"]])

\* the function without its "except Exception: pass"
check_rate_limit_NoHandler(t) == CheckRateLimitBody(t)

\* except Exception: pass; return None
check_rate_limit(t) ==
    LET body == CheckRateLimitBody(t)
    IN  IF body.kind = "raise" THEN Return(PyNone) ELSE body

\* the core object of a rate-limit document without the keys of missing
Core(remaining, reset, limit, missing) ==
    JDict([k \in {"limit", "remaining", "reset", "used"} \ missing |->
             CASE k = "limit" -> limit
               [] k = "remaining" -> remaining
               [] k = "reset" -> reset
               [] k = "used" -> JInt(0)])

RateLimitDocument(core) ==
    JDict([k \in {"resources", "rate"} |->
             IF k = "resources"
             THEN JDict([r \in {"core", "search"} |->
                           IF r = "core" THEN core ELSE JDict(<<>>)])
             ELSE JDict(<<>>)])

CoreObjects ==
    {Core(JInt(rem), JInt(reset), JInt(limit), missing) :
        rem \in {0, 42}, reset \in {3725, 86399}, limit \in {60},
        missing \in {{}, {"remaining"}, {"reset"}, {"limit"}}}
    \cup {Core(JNull, JInt(3725), JInt(60), {}),
          Core(JInt(42), JNull, JInt(60), {}),
          Core(JInt(42), JStr("soon"), JInt(60), {}),
          JNull, JList(<<>>)}

RateLimitPayloads ==
    {NotJson, JNull, JList(<<>>), JDict(<<>>),
     JDict([k \in {"resources"} |-> JNull]),
     JDict([k \in {"resources"} |-> JDict(<<>>)])}
    \cup ErrorBodies
    \cup {RateLimitDocument(core) : core \in CoreObjects}

\* no timeout is passed to requests.get: the failures are those of a
\* connection, never requests.Timeout
RateLimitFailures == {[kind |-> "connection_error"], [kind |-> "request_error"]}

InitRateLimit ==
    /\ NoBatch
    /\ pc = "call"
    /\ fn = "check_rate_limit"
    /\ url = <<>>
    /\ transport \in RateLimitFailures \cup Responses({200}, RateLimitPayloads)
    /\ result = Pending

CallCheckRateLimit ==
    /\ pc = "call"
    /\ fn = "check_rate_limit"
    /\ result' = check_rate_limit(transport)
    /\ pc' = "done"
    /\ UNCHANGED <<fn, url, transport>>
    /\ UNCHANGED mainVars

SpecRateLimit == InitRateLimit /\ [][CallCheckRateLimit]_vars

(***************************************************************************)
(* Properties of check_rate_limit.                                         *)
(***************************************************************************)
HasKey(j, k) == j.json = "dict" /\ k \in DOMAIN j.items

\* the body is a JSON document with resources.core.remaining, .reset and .limit
CompleteRateLimitBody(b) ==
    /\ HasKey(b, "resources")
    /\ HasKey(b.items["resources"], "core")
    /\ \A k \in {"remaining", "reset", "limit"} :
          HasKey(b.items["resources"].items["core"], k)

CoreAnswered == transport.body.items["resources"].items["core"]

\* C13: check_rate_limit raises nothing. It returns None for a failed
\* request, for every status other than 200 and for a 200 whose body is
\* unparsable or incomplete; a record is returned only for a 200 with a
\* complete body, and for every such body whose reset is a number the record
\* holds its remaining and limit values and the reset time as HH:MM:SS.
C13_RateLimitNeverRaises ==
    Done("check_rate_limit") =>
        /\ result.kind = "return"
        /\ (transport.kind # "response" \/ ~Answered(200)
              \/ ~CompleteRateLimitBody(transport.body)) => result.value = PyNone
        /\ (Answered(200) /\ CompleteRateLimitBody(transport.body)
              /\ CoreAnswered.items["reset"].json = "int") =>
             /\ result.value.type = "dict"
             /\ result.value.remaining = CoreAnswered.items["remaining"]
             /\ result.value.limit = CoreAnswered.items["limit"]
             /\ result.value.reset_time \in
                  {<<"0", "1", ":", "0", "2", ":", "0", "5">>,
                   <<"2", "3", ":", "5", "9", ":", "5", "9">>}

\* a 200 whose core object has no 'reset': KeyError, swallowed
C13_Witness ==
    /\ Done("check_rate_limit")
    /\ Answered(200)
    /\ HasKey(transport.body, "resources")
    /\ HasKey(transport.body.items["resources"], "core")
    /\ HasKey(CoreAnswered, "remaining")
    /\ ~HasKey(CoreAnswered, "reset")
    /\ result = Return(PyNone)

(***************************************************************************)
(* main: the rate-limit display, then the batch loop over repo_urls after  *)
(* the analyze button was pressed. The script runs in one thread: pc is    *)
(* the statement main is at, idx the position of the loop in repo_urls     *)
(* (from 1), requests the GET requests issued so far and reports what was  *)
(* displayed so far.                                                       *)
(***************************************************************************)
\* longest batch
MaxBatch == 2

\* the remote side never answers a request
Silent == [kind |-> "silent"]

\* requests.get(url, timeout=timeout) comes back: a silent peer ends the call
\* only through the timeout
Completes(t, timeout) == t.kind # "silent" \/ timeout # None

\* what requests.get gives the caller when it comes back
Outcome(t) == IF t.kind = "silent" THEN [kind |-> "timeout"] ELSE t

\* requests.get("https://api.github.com/rate_limit"): no timeout argument
RateLimitTimeout == None
\* requests.get(..., timeout=10) of the three fetchers
FetcherTimeout == Some(10)

Response(status, headers, payload) ==
    [kind |-> "response", status_code |-> status, headers |-> headers, body |-> payload]

NoHeaders == [remaining |-> None, reset |-> None]
LimitHeaders == [remaining |-> Some(<<"0">>), reset |-> Some(<<"3", "7", "2", "5">>)]

NotFoundBody == JDict([k \in {"message"} |-> JStr("Not Found")])

RateLimitRemote ==
    {Silent, [kind |-> "connection_error"],
     Response(403, LimitHeaders, NotFoundBody),
     Response(200, NoHeaders, RateLimitDocument(Core(JInt(42), JInt(3725), JInt(60), {})))}

SummaryRemote ==
    {Silent, [kind |-> "connection_error"],
     Response(404, NoHeaders, NotFoundBody),
     Response(403, LimitHeaders, NotFoundBody),
     Response(200, NoHeaders,
              RepoDocument({}, DateOf("padded", 2011, 1, 26), DateOf("padded", 2024, 2, 29),
                           Some(JStr("My first repository")), Some(JStr("Python")))),
     Response(200, NoHeaders,
              RepoDocument({"name"}, DateOf("padded", 2011, 1, 26),
                           DateOf("padded", 2024, 2, 29), None, None))}

LanguageRemote ==
    {Silent,
     Response(404, NoHeaders, NotFoundBody),
     Response(200, NoHeaders, JDict(<<>>)),
     Response(200, NoHeaders, JDict([k \in {"Python"} |-> JInt(0)])),
     Response(200, NoHeaders,
              JDict([k \in {"Python", "JavaScript"} |->
                       IF k = "Python" THEN JInt(300) ELSE JInt(100)]))}

CommitRemote ==
    {Silent,
     Response(202, NoHeaders, JDict(<<>>)),
     Response(429, LimitHeaders, NotFoundBody),
     Response(200, NoHeaders, JList(<<>>)),
     Response(200, NoHeaders,
              JList(<<Week(1336262400, 5, <<1, 0, 0, 0, 0, 0, 4>>),
                      Week(1336867200, 3, <<0, 1, 1, 0, 0, 1, 0>>)>>)),
     Response(200, NoHeaders,
              JList(<<Without(Week(1336262400, 5, <<1, 0, 0, 0, 0, 0, 4>>), "days")>>))}

\* an entry of repo_urls: a text, or (from an uploaded file) a number
Text(u) == [text |-> u]
Number(n) == [number |-> n]
IsText(entry) == "text" \in DOMAIN entry

\* github.com/a/a.git, github.com/b/a, https://a/a (no match),
\* github.com/a/.git (empty repository name) and a number
BatchEntries ==
    {Text(Flatten(<<Host, <<"/">>, <<"a">>, <<"/">>, <<"a">>, DotGit>>)),
     Text(Flatten(<<Host, <<"/">>, <<"b">>, <<"/">>, <<"a">>>>)),
     Text(Flatten(<<Scheme, <<"a">>, <<"/">>, <<"a">>>>)),
     Text(Flatten(<<Host, <<"/">>, <<"a">>, <<"/">>, DotGit>>)),
     Number(7)}

Batches == SeqsUpTo(BatchEntries, MaxBatch)

\* (owner, repo) of the entry the loop is at
Target == extract_repo_info(repo_urls[idx].text)

\* "if not owner"
IsInvalid_OwnerOnly(pair) == pair[1] = None \/ pair[1] = Some(<<>>)

\* "if not owner or not repo"
IsInvalid(pair) == pair[1] = None \/ pair[2] = None \/ pair[1] = Some(<<>>) \/ pair[2] = Some(<<>>)

\* the GET requests one invocation of a fetcher issues
RequestsOf_RetryOnAccepted(endpoint, target, t) ==
    IF t.kind = "response" /\ t.status_code = 202
    THEN <<[endpoint |-> endpoint, target |-> target],
           [endpoint |-> endpoint, target |-> target]>>
    ELSE <<[endpoint |-> endpoint, target |-> target]>>

\* the language and the commit-activity endpoints exchanged
RequestsOf_EndpointsSwapped(endpoint, target, t) ==
    <<[endpoint |-> CASE endpoint = "languages" -> "commit_activity"
                      [] endpoint = "commit_activity" -> "languages"
                      [] OTHER -> endpoint,
       target |-> target]>>

RequestsOf(endpoint, target, t) == <<[endpoint |-> endpoint, target |-> target]>>

Report(item, section, shown, kind) ==
    [item |-> item, section |-> section, shown |-> shown, kind |-> kind]

\* where the for statement goes after entry i
NextItem(urls, i) ==
    IF i < Len(urls) THEN [pc |-> "extract", idx |-> i + 1]
    ELSE [pc |-> "finished", idx |-> i]

\* handlers that let the exception leave the loop
OuterExcept_Abort(urls, i, section, e) ==
    [report |-> Report(i, section, "error", ErrorKind(e)),
     next |-> [pc |-> "finished", idx |-> i]]

\* except GitHubAPIError as e: display_error_message(e)
\* except Exception as e: st.error(...)    -- then the next entry
OuterExcept(urls, i, section, e) ==
    [report |-> Report(i, section, "error", ErrorKind(e)),
     next |-> NextItem(urls, i)]

\* what a section of the page does with the outcome r of its fetcher: the
\* report it displays, and the exception that leaves the section
SummarySection(r) ==
    IF r.kind = "raise" THEN [shown |-> "none", kind |-> "none", escapes |-> Some(r.exc)]
    ELSE [shown |-> "data", kind |-> "summary", escapes |-> None]

\* the language section without its try statement
LanguageSection_NoTry(r) ==
    IF r.kind = "raise" THEN [shown |-> "none", kind |-> "none", escapes |-> Some(r.exc)]
    ELSE IF r.value = PyNone THEN [shown |-> "info", kind |-> "unavailable", escapes |-> None]
    ELSE [shown |-> "data", kind |-> "languages", escapes |-> None]

\* try: ... except Exception as e: st.warning("Could not load language statistics")
LanguageSection(r) ==
    IF r.kind = "raise" THEN [shown |-> "warning", kind |-> "failed", escapes |-> None]
    ELSE IF r.value = PyNone THEN [shown |-> "info", kind |-> "unavailable", escapes |-> None]
    ELSE [shown |-> "data", kind |-> "languages", escapes |-> None]

\* try: ... except Exception as e: st.warning("Could not load commit activity")
CommitSection(r) ==
    IF r.kind = "raise" THEN [shown |-> "warning", kind |-> "failed", escapes |-> None]
    ELSE IF r.value = PyNone THEN [shown |-> "info", kind |-> "no_data", escapes |-> None]
    ELSE IF r.value.status = "computing"
    THEN [shown |-> "info", kind |-> "computing", escapes |-> None]
    ELSE [shown |-> "data", kind |-> "commits", escapes |-> None]

InitMain ==
    /\ pc = "start"
    /\ fn = "main"
    /\ url = <<>>
    /\ transport = NoTransport
    /\ result = Pending
    /\ repo_urls \in Batches
    /\ idx = 0
    /\ requests = <<>>
    /\ reports = <<>>

\* display_rate_limit_info() -> check_rate_limit(): the request goes out
MainSendRateLimitRequest ==
    /\ pc = "start"
    /\ \E t \in RateLimitRemote : transport' = t
    /\ requests' = Append(requests, [endpoint |-> "rate_limit", target |-> <<None, None>>])
    /\ pc' = "rate_limit"
    /\ UNCHANGED <<fn, url, result, repo_urls, idx, reports>>

\* requests.get comes back, check_rate_limit returns and the sidebar is
\* filled when rate_info is truthy
MainRateLimitReturns ==
    /\ pc = "rate_limit"
    /\ Completes(transport, RateLimitTimeout)
    /\ result' = check_rate_limit(Outcome(transport))
    /\ reports' = IF result'.value # PyNone
                  THEN Append(reports, Report(0, "sidebar", "data", "rate_info"))
                  ELSE reports
    /\ pc' = "analysis"
    /\ UNCHANGED <<fn, url, transport, repo_urls, idx, requests>>

\* the analyze button: "if not repo_urls: st.error(...); return", else the loop
MainAnalyze ==
    /\ pc = "analysis"
    /\ IF repo_urls = <<>>
       THEN /\ reports' = Append(reports, Report(0, "input", "error", "no_url"))
            /\ pc' = "finished"
            /\ idx' = idx
       ELSE /\ reports' = reports
            /\ pc' = "extract"
            /\ idx' = 1
    /\ UNCHANGED <<fn, url, transport, result, repo_urls, requests>>

\* owner, repo = extract_repo_info(repo_url); if not owner or not repo: ... continue
MainExtract ==
    /\ pc = "extract"
    /\ IF ~IsText(repo_urls[idx])
       THEN \* re.search raises TypeError, caught by "except Exception"
            LET e == PyError("TypeError", <<Lit("expected string or bytes-like object")>>)
                h == OuterExcept(repo_urls, idx, "url", e)
            IN  /\ result' = Raise(e)
                /\ reports' = Append(reports, h.report)
                /\ pc' = h.next.pc
                /\ idx' = h.next.idx
       ELSE /\ result' = Return(Target)
            /\ IF IsInvalid(Target)
               THEN /\ reports' = Append(reports, Report(idx, "url", "error", "invalid_url"))
                    /\ pc' = NextItem(repo_urls, idx).pc
                    /\ idx' = NextItem(repo_urls, idx).idx
               ELSE /\ reports' = reports
                    /\ pc' = "summary"
                    /\ idx' = idx
    /\ UNCHANGED <<fn, url, transport, repo_urls, requests>>

\* the rest of a fetch step: the section displays sec, or the exception that
\* leaves it reaches the handlers of the loop body
Display(section, sec, after) ==
    IF sec.escapes # None
    THEN LET h == OuterExcept(repo_urls, idx, section, sec.escapes[1])
         IN  /\ reports' = Append(reports, h.report)
             /\ pc' = h.next.pc
             /\ idx' = h.next.idx
    ELSE /\ reports' = Append(reports, Report(idx, section, sec.shown, sec.kind))
         /\ pc' = after.pc
         /\ idx' = after.idx

\* repo_info = fetch_repo_data(owner, repo) and the overview
MainFetchSummary ==
    /\ pc = "summary"
    /\ \E t \in SummaryRemote :
          /\ Completes(t, FetcherTimeout)
          /\ transport' = t
          /\ requests' = requests \o RequestsOf("repo", Target, t)
          /\ result' = fetch_repo_data(Outcome(t))
    /\ Display("repository", SummarySection(result'), [pc |-> "language", idx |-> idx])
    /\ UNCHANGED <<fn, url, repo_urls>>

\* language_stats = fetch_language_stats(owner, repo) and its chart
MainFetchLanguages ==
    /\ pc = "language"
    /\ \E t \in LanguageRemote :
          /\ Completes(t, FetcherTimeout)
          /\ transport' = t
          /\ requests' = requests \o RequestsOf("languages", Target, t)
          /\ result' = fetch_language_stats(Outcome(t))
    /\ Display("languages", LanguageSection(result'), [pc |-> "commit", idx |-> idx])
    /\ UNCHANGED <<fn, url, repo_urls>>

\* commit_data = fetch_commit_activity(owner, repo), its charts, then the
\* next entry of the batch
MainFetchCommits ==
    /\ pc = "commit"
    /\ \E t \in CommitRemote :
          /\ Completes(t, FetcherTimeout)
          /\ transport' = t
          /\ requests' = requests \o RequestsOf("commit_activity", Target, t)
          /\ result' = fetch_commit_activity(Outcome(t))
    /\ Display("commits", CommitSection(result'), NextItem(repo_urls, idx))
    /\ UNCHANGED <<fn, url, repo_urls>>

NextMain ==
    \/ MainSendRateLimitRequest
    \/ MainRateLimitReturns
    \/ MainAnalyze
    \/ MainExtract
    \/ MainFetchSummary
    \/ MainFetchLanguages
    \/ MainFetchCommits

SpecMain == InitMain /\ [][NextMain]_vars

(***************************************************************************)
(* Properties of main.                                                     *)
(***************************************************************************)
Finished == pc = "finished"

\* C14: the rate-limit inspection never blocks main: whatever the remote side
\* does with the rate-limit request, never answering included, the call of
\* check_rate_limit comes back, so that main gets past display_rate_limit_info
\* to the analysis. As a property of every state: while main is inside the
\* call, the step that returns from it is possible.
C14_RateLimitNeverBlocks ==
    pc = "rate_limit" => ENABLED MainRateLimitReturns

Items == 1..Len(repo_urls)

\* something was displayed for entry i / in a section of entry i
Processed(i) == \E k \in 1..Len(reports) : reports[k].item = i
Reported(i, section) ==
    \E k \in 1..Len(reports) : reports[k].item = i /\ reports[k].section = section
ReportedAs(i, section, shown) ==
    \E k \in 1..Len(reports) :
        reports[k].item = i /\ reports[k].section = section /\ reports[k].shown = shown

\* the loop has left entry i
Left(i) == i < idx \/ Finished

\* C15: the failure of one entry of the batch (an invalid URL, a
\* GitHubAPIError, any other exception) never ends the loop: every entry
\* before the position of the loop was processed, and when main is finished
\* every entry of the batch was.
C15_BatchIsolation ==
    \A i \in Items : Left(i) => Processed(i)

\* a batch of two: the first entry fails with a GitHubAPIError (404), the
\* second is analysed down to its commit activity
C15_Witness ==
    /\ Finished
    /\ Len(repo_urls) = 2
    /\ \E k \in 1..Len(reports) :
          reports[k] = Report(1, "repository", "error", "NotFound")
    /\ ReportedAs(2, "commits", "data")

\* C16: for one repository the language section and the commit section do
\* not suppress each other: once the loop has left an entry, the entry has an
\* outcome displayed for its languages exactly when it has one for its
\* commits, whatever the two outcomes are.
C16_LanguageAndCommitIndependent ==
    /\ \A i \in Items : Left(i) => (Reported(i, "languages") <=> Reported(i, "commits"))
    /\ pc = "commit" => Reported(idx, "languages")

\* one entry whose language fetch failed and whose commits are displayed,
\* another whose languages are displayed and whose commit fetch failed
C16_Witness ==
    /\ Finished
    /\ \E i \in Items :
          ReportedAs(i, "languages", "warning") /\ ReportedAs(i, "commits", "data")
    /\ \E j \in Items :
          ReportedAs(j, "languages", "data") /\ ReportedAs(j, "commits", "warning")

\* the requests issued to an endpoint for a repository
NumRequests(endpoint, target) ==
    Cardinality({k \in 1..Len(requests) :
                    requests[k] = [endpoint |-> endpoint, target |-> target]})

\* entry i reached the fetches: it is a text from which owner and repo come
IsAnalysed(i) ==
    IsText(repo_urls[i]) /\ ~IsInvalid(extract_repo_info(repo_urls[i].text))

\* C17: for every entry that is analysed all three fetches are attempted and
\* the outcome of each is displayed: once the loop has left the entry there
\* is a report for its summary, its languages and its commits, and each of
\* the three endpoints was requested as often as the summary endpoint.
C17_AllThreeFetchesAttempted ==
    \A i \in Items :
        (Left(i) /\ IsAnalysed(i)) =>
            LET target == extract_repo_info(repo_urls[i].text)
            IN  /\ Reported(i, "repository")
                /\ Reported(i, "languages")
                /\ Reported(i, "commits")
                /\ NumRequests("languages", target) = NumRequests("repo", target)
                /\ NumRequests("commit_activity", target) = NumRequests("repo", target)

FetchPositions == {"summary", "language", "commit"}

EndpointAt(position) ==
    CASE position = "summary" -> "repo"
      [] position = "language" -> "languages"
      [] position = "commit" -> "commit_activity"

\* C18: no automatic retry: every step of main that invokes a fetcher adds
\* exactly one GET request, for the fetcher's endpoint and the current
\* repository, whatever the answer is; the only other request is the one of
\* the rate-limit call, and no other step adds a request.
C18_OneRequestPerInvocation ==
    [][ /\ pc \in FetchPositions =>
             requests' = Append(requests, [endpoint |-> EndpointAt(pc), target |-> Target])
        /\ pc = "start" => Len(requests') = Len(requests) + 1
        /\ pc \notin FetchPositions \cup {"start"} => requests' = requests ]_vars

\* one repository whose commit activity is being computed (202): four
\* requests in all, one of them to the commit-activity endpoint
C18_Witness ==
    /\ Finished
    /\ Len(repo_urls) = 1
    /\ \E k \in 1..Len(reports) : reports[k] = Report(1, "commits", "info", "computing")
    /\ Len(requests) = 4
    /\ NumRequests("commit_activity", extract_repo_info(repo_urls[1].text)) = 1

(***************************************************************************)
(* Properties of the repository summary.                                   *)
(***************************************************************************)
SummaryAnswered ==
    Done("fetch_repo_data") /\ Answered(200) /\ transport.body.json = "dict"

MissesRequiredKey(b) == \E k \in RequiredKeys : k \notin DOMAIN b.items

\* the text of date field key is exactly YYYY-MM-DDTHH:MM:SSZ with a day
\* that exists
IsStrictDate(b, key) ==
    /\ b.items[key].json = "str"
    /\ b.items[key].date.shape = "padded"
    /\ b.items[key].date.month \in 1..12
    /\ b.items[key].date.day \in 1..DaysInMonth(b.items[key].date.year, b.items[key].date.month)

\* strptime takes the text of date field key: as IsStrictDate, but fields of
\* one digit are taken too
IsParsedDate(b, key) ==
    /\ b.items[key].json = "str"
    /\ b.items[key].date.shape \in {"padded", "unpadded"}
    /\ b.items[key].date.month \in 1..12
    /\ b.items[key].date.day \in 1..DaysInMonth(b.items[key].date.year, b.items[key].date.month)

FailsAsOther ==
    /\ RaisedGitHubAPIError
    /\ ErrorKind(result.exc) = "Other"
    /\ result.exc.status_code = None
    /\ result.exc.message[1] = Lit("Unexpected error: ")

\* C21: for a status-200 payload that lacks a required field or has a date
\* that does not match YYYY-MM-DDTHH:MM:SSZ, fetch_repo_data raises a
\* GitHubAPIError of kind Other and returns no summary.
C21_MalformedPayloadIsFatal ==
    (SummaryAnswered
       /\ (MissesRequiredKey(transport.body)
             \/ \E k \in {"created_at", "updated_at"} : ~IsStrictDate(transport.body, k))) =>
        FailsAsOther

\* C21 (amended): for a status-200 payload that lacks a required field or has
\* a date that strptime does not take with %Y-%m-%dT%H:%M:%SZ (a null, a date
\* without time, another zone suffix, a day that does not exist),
\* fetch_repo_data raises a GitHubAPIError of kind Other; a date whose fields
\* are not zero-padded is taken and returned as YYYY-MM-DD.
C21_UnparsedPayloadIsFatal ==
    /\ (SummaryAnswered
          /\ (MissesRequiredKey(transport.body)
                \/ \E k \in {"created_at", "updated_at"} : ~IsParsedDate(transport.body, k))) =>
           FailsAsOther
    /\ (SummaryAnswered /\ ~MissesRequiredKey(transport.body)
          /\ transport.body.items["created_at"] = DateOf("unpadded", 2011, 1, 6)
          /\ IsParsedDate(transport.body, "updated_at")) =>
           /\ result.kind = "return"
           /\ result.value.created_at = <<"2", "0", "1", "1", "-", "0", "1", "-", "0", "6">>

\* every required field is there, created_at ends in +00:00
C21_Witness ==
    /\ SummaryAnswered
    /\ ~MissesRequiredKey(transport.body)
    /\ transport.body.items["created_at"] = DateOf("offset", 2011, 1, 26)
    /\ FailsAsOther

\* C22: every summary fetch_repo_data returns has a language that is not
\* null; when the payload carries no language (the key is absent or its value
\* is null) the language is the text "Not specified".
C22_LanguageNeverNull ==
    (Done("fetch_repo_data") /\ result.kind = "return") =>
        /\ result.value.language # JNull
        /\ ("language" \notin DOMAIN transport.body.items
              \/ transport.body.items["language"] = JNull) =>
             result.value.language = JStr("Not specified")

(***************************************************************************)
(* Properties of the weekly series.                                        *)
(***************************************************************************)
\* C24: when the commit-activity endpoint answers 200 with an empty series,
\* fetch_commit_activity returns None: it raises nothing and returns no
\* Ready result.
C24_EmptySeriesGivesNone ==
    (Done("fetch_commit_activity") /\ Answered(200) /\ transport.body = JList(<<>>)) =>
        result = Return(PyNone)

C24_Witness ==
    /\ Done("fetch_commit_activity")
    /\ Answered(200)
    /\ transport.body = JList(<<>>)
    /\ result.kind = "return"
    /\ result.value = PyNone

\* the date of the weeks of the inputs
ExpectedWeekDate(ts) ==
    CASE ts = 1336262400 -> <<"2", "0", "1", "2", "-", "0", "5", "-", "0", "6">>
      [] ts = 1336867200 -> <<"2", "0", "1", "2", "-", "0", "5", "-", "1", "3">>

\* C25: in every Ready result weeks and commits are as long as the series of
\* the payload and keep its order: weeks[i] is the date of the i-th week
\* record and commits[i] its total.
C25_WeeksAndCommitsFollowSeries ==
    IsReady =>
        /\ Len(result.value.weeks) = Len(WeeksAnswered)
        /\ Len(result.value.commits) = Len(WeeksAnswered)
        /\ \A i \in 1..Len(WeeksAnswered) :
              /\ result.value.weeks[i] = ExpectedWeekDate(WeeksAnswered[i].items["week"].v)
              /\ result.value.commits[i] = TotalOfRecord(WeeksAnswered[i])

\* two weeks, the later one first in the payload, with different totals
C25_Witness ==
    /\ IsReady
    /\ Len(WeeksAnswered) = 2
    /\ WeeksAnswered[1].items["week"].v = 1336867200
    /\ WeeksAnswered[2].items["week"].v = 1336262400
    /\ result.value.commits = <<5, 2>>
    /\ result.value.weeks[1] = <<"2", "0", "1", "2", "-", "0", "5", "-", "1", "3">>

(***************************************************************************)
(* Properties of the status test.                                          *)
(***************************************************************************)
\* the statuses whose response a fetcher turns into a returned value
ReturningStatuses(f) == IF f = "fetch_commit_activity" THEN {200, 202} ELSE {200}

\* C26: only a status-200 response is parsed into a value: for every other
\* status, 201 and 204 included, fetch_repo_data and fetch_language_stats
\* raise and return nothing, and so does fetch_commit_activity for every
\* status other than 200 and 202, whatever the payload is; the 202 answer is
\* the Computing result, never a parsed payload.
C26_OnlyStatus200IsParsed ==
    (FetchDone /\ transport.kind = "response") =>
        /\ transport.status_code \notin ReturningStatuses(fn) => result.kind = "raise"
        /\ (result.kind = "return" /\ transport.status_code # 200) => result.value = Computing

\* status 201 with a complete repository document: the document is not read
C26_Witness ==
    /\ Done("fetch_repo_data")
    /\ Answered(201)
    /\ transport.body = GoodRepoPayload
    /\ RaisedGitHubAPIError
    /\ result.exc.status_code = Some(201)

(***************************************************************************)
(* Properties of the order of the requests and of invalid URLs.            *)
(***************************************************************************)
\* extract_repo_info gave no owner or no name
NoOwnerOrName(pair) ==
    \E p \in 1..2 : pair[p] = None \/ pair[p] = Some(<<>>)

\* the loop has gone past the summary fetch of entry i
PastSummary(i) == Left(i) \/ (i = idx /\ pc \in {"language", "commit"})

\* the (owner, repo) pairs of the entries whose summary request was issued
\* (the entries past their summary fetch that are texts with an owner and a
\* name), in the order of the input list
RECURSIVE IssuedTargets(_)
IssuedTargets(i) ==
    IF i = 0 THEN <<>>
    ELSE LET pair == extract_repo_info(repo_urls[i].text)
         IN  IF PastSummary(i) /\ IsText(repo_urls[i]) /\ ~NoOwnerOrName(pair)
             THEN Append(IssuedTargets(i - 1), pair)
             ELSE IssuedTargets(i - 1)

\* the (owner, repo) pairs of the summary requests, in the order of the log
RECURSIVE SummaryTargets(_)
SummaryTargets(log) ==
    IF log = <<>> THEN <<>>
    ELSE IF Head(log).endpoint = "repo"
    THEN <<Head(log).target>> \o SummaryTargets(Tail(log))
    ELSE SummaryTargets(Tail(log))

\* C23: the requests of a batch are issued one entry at a time in the order
\* of the input list, and for one entry the summary request precedes the
\* language request, which precedes the commit-activity request: the summary
\* requests of the log are those of the entries reached so far, in input
\* order; a language request directly follows the summary request of the same
\* repository and a commit-activity request directly follows its language
\* request.
C23_RequestsInInputOrder ==
    /\ SummaryTargets(requests) = IssuedTargets(Len(repo_urls))
    /\ \A k \in 1..Len(requests) :
          /\ requests[k].endpoint = "rate_limit" => k = 1
          /\ requests[k].endpoint = "languages" =>
                k > 1 /\ requests[k - 1] = [endpoint |-> "repo", target |-> requests[k].target]
          /\ requests[k].endpoint = "commit_activity" =>
                k > 1 /\ requests[k - 1] = [endpoint |-> "languages",
                                            target |-> requests[k].target]

\* two different repositories, each with its three requests
C23_Witness ==
    /\ Finished
    /\ Len(repo_urls) = 2
    /\ Len(requests) = 7
    /\ requests[2].target # requests[5].target
    /\ requests[2].target = extract_repo_info(repo_urls[1].text)
    /\ requests[5].target = extract_repo_info(repo_urls[2].text)
    /\ <<requests[2].endpoint, requests[3].endpoint, requests[4].endpoint>>
         = <<"repo", "languages", "commit_activity">>
    /\ <<requests[5].endpoint, requests[6].endpoint, requests[7].endpoint>>
         = <<"repo", "languages", "commit_activity">>

\* C27: for a URL of the batch from which extract_repo_info yields no owner
\* or no name, the step of main that handles it issues no request, displays
\* the invalid-URL error and goes on to the next URL (or ends the batch after
\* the last one).
C27_InvalidUrlIssuesNoRequest ==
    [][ (pc = "extract" /\ IsText(repo_urls[idx])
           /\ NoOwnerOrName(extract_repo_info(repo_urls[idx].text))) =>
          /\ requests' = requests
          /\ reports' = Append(reports, Report(idx, "url", "error", "invalid_url"))
          /\ IF idx < Len(repo_urls)
             THEN pc' = "extract" /\ idx' = idx + 1
             ELSE pc' = "finished" ]_vars

\* github.com/a/.git (the name is empty once ".git" is removed) followed by
\* a repository that is analysed: the only requests are those of the second
C27_Witness ==
    /\ Finished
    /\ Len(repo_urls) = 2
    /\ repo_urls[1] = Text(Flatten(<<Host, <<"/">>, <<"a">>, <<"/">>, DotGit>>))
    /\ \E k \in 1..Len(reports) : reports[k] = Report(1, "url", "error", "invalid_url")
    /\ ReportedAs(2, "repository", "data")
    /\ Len(requests) = 4
    /\ \A k \in 2..4 : requests[k].target = extract_repo_info(repo_urls[2].text)

====
